---- MODULE Spec2Model ----
(***************************************************************************)
(* The Erc20 contract of src/lib.rs as a state machine.  The state is the  *)
(* contract storage (total_supply, balances, allowances), the event sink   *)
(* as an append-only log, and the record of the last message call and its  *)
(* return value.  Every message is one atomic step: the host serialises    *)
(* calls.                                                                  *)
(***************************************************************************)
EXTENDS Integers, Sequences, FiniteSets, TLC

VARIABLES
    total_supply,   \* Erc20.total_supply
    balances,       \* Erc20.balances: Mapping<AccountId, Balance>
    allowances,     \* Erc20.allowances: Mapping<(AccountId, AccountId), Balance>
    events,         \* what emit_event has sent to the event sink, in order
    last,           \* the last call and what it returned
    pre,            \* storage and event log as they were when the last call began
    grant,          \* per (owner, spender): the value of the owner's last approve
                    \* and what the spender has moved with transfer_from since
    frame           \* the call in progress when a message is run statement by
                    \* statement: its arguments, locals, position and writes

vars == <<total_supply, balances, allowances, events, last, pre, grant, frame>>

\* The storage and the event log, as one value.
Storage(ts, bals, alws, evs) ==
    [total_supply |-> ts, balances |-> bals, allowances |-> alws, events |-> evs]

Current == Storage(total_supply, balances, allowances, events)

\* No call is in progress: the last one, op, has returned result after the
\* writes it made.
Returned_frame(op, result, writes) ==
    [at |-> 0, op |-> op, result |-> result, writes |-> writes]

NoFrame == Returned_frame("none", "Ok", <<>>)

(* ------------------------------ bounds --------------------------------- *)

\* Largest value of the (scaled-down) unsigned Balance type.
MaxBalance == 2

\* Calls are accepted while the event log holds fewer than this many events.
MaxEvents == 3

(* ------------------------------ types ---------------------------------- *)

AccountId == {"alice", "bob", "frank"}

Balance == 0 .. MaxBalance

\* Option<AccountId>
None == {}

Some(a) == {a}

(* ------------------- ink_storage::Mapping semantics -------------------- *)

EmptyMapping == [k \in {} |-> 0]

\* Mapping::get(key).unwrap_or_default()
MapGetOrDefault(m, k) == IF k \in DOMAIN m THEN m[k] ELSE 0

\* Mapping::insert(key, value): overwrites
MapInsert(m, k, v) == [x \in (DOMAIN m) \cup {k} |-> IF x = k THEN v ELSE m[x]]

(* ------------------------------ events --------------------------------- *)

Transfer(from, to, value) ==
    [event |-> "Transfer", from |-> from, to |-> to, value |-> value]

Approval(owner, spender, value) ==
    [event |-> "Approval", owner |-> owner, spender |-> spender, value |-> value]

(* ------------------------------ reads ---------------------------------- *)

balance_of_impl(bals, owner) == MapGetOrDefault(bals, owner)

balance_of(owner) == MapGetOrDefault(balances, owner)

allowance_impl(alws, owner, spender) == MapGetOrDefault(alws, <<owner, spender>>)

allowance(owner, spender) == allowance_impl(allowances, owner, spender)

(* --------------------------- arithmetic -------------------------------- *)

\* to_balance + value on the unsigned Balance type.  When the sum does not
\* fit, the build decides: with overflow checks the call traps, without
\* them the sum wraps.
BalanceAdd(a, b) ==
    IF a + b <= MaxBalance
    THEN {[trap |-> FALSE, sum |-> a + b]}
    ELSE {[trap |-> TRUE, sum |-> 0], [trap |-> FALSE, sum |-> (a + b) % (MaxBalance + 1)]}

(* ------------------------- core transfer routine ----------------------- *)

\* transfer_from_to without the debit of line 102: the recipient is credited
\* and the sender keeps its balance.
transfer_from_to_NoDebit(bals, from, to, value) ==
    LET from_balance == balance_of_impl(bals, from) IN
    IF from_balance < value
    THEN {[result |-> "InsufficientBalance", balances |-> bals, emitted |-> <<>>]}
    ELSE LET to_balance == balance_of_impl(bals, to)
         IN  {[result   |-> "Ok",
               balances |-> MapInsert(bals, to, (to_balance + value) % (MaxBalance + 1)),
               emitted  |-> <<Transfer(Some(from), Some(to), value)>>]}

\* transfer_from_to that clamps an overdraw: the sender is emptied before
\* the error is returned.
transfer_from_to_ClampsOverdraw(bals, from, to, value) ==
    LET from_balance == balance_of_impl(bals, from) IN
    IF from_balance < value
    THEN {[result |-> "InsufficientBalance", balances |-> MapInsert(bals, from, 0),
           emitted |-> <<>>]}
    ELSE LET debited    == MapInsert(bals, from, from_balance - value)
             to_balance == balance_of_impl(debited, to)
         IN  {[result   |-> "Ok",
               balances |-> MapInsert(debited, to, (to_balance + value) % (MaxBalance + 1)),
               emitted  |-> <<Transfer(Some(from), Some(to), value)>>]}

\* transfer_from_to that reads to_balance before it writes the debit: a
\* transfer to oneself then stores the stale balance plus value.
transfer_from_to_StaleRead(bals, from, to, value) ==
    LET from_balance == balance_of_impl(bals, from) IN
    IF from_balance < value
    THEN {[result |-> "InsufficientBalance", balances |-> bals, emitted |-> <<>>]}
    ELSE LET to_balance == balance_of_impl(bals, to)
             debited    == MapInsert(bals, from, from_balance - value)
         IN  { IF s.trap
               THEN [result |-> "Trap", balances |-> bals, emitted |-> <<>>]
               ELSE [result   |-> "Ok",
                     balances |-> MapInsert(debited, to, s.sum),
                     emitted  |-> <<Transfer(Some(from), Some(to), value)>>]
               : s \in BalanceAdd(to_balance, value) }

\* transfer_from_to that credits twice what it debits.
transfer_from_to_DoubleCredit(bals, from, to, value) ==
    LET from_balance == balance_of_impl(bals, from) IN
    IF from_balance < value
    THEN {[result |-> "InsufficientBalance", balances |-> bals, emitted |-> <<>>]}
    ELSE LET debited    == MapInsert(bals, from, from_balance - value)
             to_balance == balance_of_impl(debited, to)
         IN  { IF s.trap
               THEN [result |-> "Trap", balances |-> bals, emitted |-> <<>>]
               ELSE [result   |-> "Ok",
                     balances |-> MapInsert(debited, to, s.sum),
                     emitted  |-> <<Transfer(Some(from), Some(to), value)>>]
               : s \in BalanceAdd(to_balance, value + value) }

\* transfer_from_to with the check from_balance <= value: a transfer of the
\* whole balance, and so of 0 by an empty account, is refused.
transfer_from_to_StrictCheck(bals, from, to, value) ==
    LET from_balance == balance_of_impl(bals, from) IN
    IF from_balance <= value
    THEN {[result |-> "InsufficientBalance", balances |-> bals, emitted |-> <<>>]}
    ELSE LET debited    == MapInsert(bals, from, from_balance - value)
             to_balance == balance_of_impl(debited, to)
         IN  { IF s.trap
               THEN [result |-> "Trap", balances |-> bals, emitted |-> <<>>]
               ELSE [result   |-> "Ok",
                     balances |-> MapInsert(debited, to, s.sum),
                     emitted  |-> <<Transfer(Some(from), Some(to), value)>>]
               : s \in BalanceAdd(to_balance, value) }

\* The outcomes of transfer_from_to on the balances bals: the returned
\* result, the balances mapping it leaves and the events it emits.
transfer_from_to(bals, from, to, value) ==
    LET from_balance == balance_of_impl(bals, from) IN
    IF from_balance < value
    THEN {[result |-> "InsufficientBalance", balances |-> bals, emitted |-> <<>>]}
    ELSE LET debited    == MapInsert(bals, from, from_balance - value)
             to_balance == balance_of_impl(debited, to)
         IN  { IF s.trap
               THEN [result |-> "Trap", balances |-> bals, emitted |-> <<>>]
               ELSE [result   |-> "Ok",
                     balances |-> MapInsert(debited, to, s.sum),
                     emitted  |-> <<Transfer(Some(from), Some(to), value)>>]
               : s \in BalanceAdd(to_balance, value) }

(* ------------------------------ calls ---------------------------------- *)

\* The contract takes calls while the event log has room (the bound of the
\* model on the length of a run; the code has no such limit).
Accepting == Len(events) < MaxEvents

\* The record of a call that returned Ok: the message, its caller and its
\* arguments (for transfer, from is the caller; for approve, from is the
\* owner and to the spender).
Call(op, caller, from, to, value) ==
    [op |-> op, result |-> "Ok", caller |-> caller, from |-> from, to |-> to,
     value |-> value]

\* The record of a call that did not return Ok: the message and what it
\* returned.  A failed call leaves nothing else behind.
Failed(op, result) == [op |-> op, result |-> result]

Returned(op, result, caller, from, to, value) ==
    IF result = "Ok" THEN Call(op, caller, from, to, value) ELSE Failed(op, result)

\* new_init that credits the caller but never stores total_supply.
new_init_NoSupply(caller, initial_supply) ==
    /\ balances = MapInsert(EmptyMapping, caller, initial_supply)
    /\ total_supply = 0
    /\ allowances = EmptyMapping
    /\ events = <<Transfer(None, Some(caller), initial_supply)>>
    /\ last = Call("new", caller, caller, caller, initial_supply)
    /\ pre = Storage(0, EmptyMapping, EmptyMapping, <<>>)
    /\ grant = EmptyMapping
    /\ frame = NoFrame

\* Erc20::new / new_init, called by caller
new_init(caller, initial_supply) ==
    /\ balances = MapInsert(EmptyMapping, caller, initial_supply)
    /\ total_supply = initial_supply
    /\ allowances = EmptyMapping
    /\ events = <<Transfer(None, Some(caller), initial_supply)>>
    /\ last = Call("new", caller, caller, caller, initial_supply)
    /\ pre = Storage(0, EmptyMapping, EmptyMapping, <<>>)
    /\ grant = EmptyMapping
    /\ frame = NoFrame

\* The account that constructs the contract.  Account identifiers are opaque
\* and the code never compares them with a fixed one, so one deployer stands
\* for all; alice is the default caller the tests construct with.
Deployer == "alice"

\* The state after new(initial_supply), for any initial supply.
Init == \E initial_supply \in Balance : new_init(Deployer, initial_supply)

\* transfer with the two accounts swapped: moves value from to to the caller.
transfer_impl_Swapped(bals, caller, to, value) ==
    LET from == caller IN transfer_from_to(bals, to, from, value)

\* The outcome of transfer called by caller on the balances bals.
transfer_impl(bals, caller, to, value) ==
    LET from == caller IN transfer_from_to(bals, from, to, value)

\* transfer that burns: the caller is debited, nobody is credited and the
\* supply shrinks.
transfer_Burns(caller, to, value) ==
    /\ Accepting
    /\ balance_of_impl(balances, caller) >= value
    /\ balances' = MapInsert(balances, caller, balance_of_impl(balances, caller) - value)
    /\ total_supply' = total_supply - value
    /\ events' = Append(events, Transfer(Some(caller), Some(to), value))
    /\ last' = Call("transfer", caller, caller, to, value)
    /\ pre' = Current
    /\ UNCHANGED <<allowances, grant, frame>>

\* One call of transfer, from entry to return.
transfer_call(caller, to, value) ==
    /\ \E r \in transfer_impl(balances, caller, to, value) :
          /\ balances' = r.balances
          /\ events' = events \o r.emitted
          /\ last' = Returned("transfer", r.result, caller, caller, to, value)
    /\ pre' = Current
    /\ UNCHANGED <<total_supply, allowances, grant, frame>>

transfer(caller, to, value) == Accepting /\ transfer_call(caller, to, value)

\* approve that adds value to the prior allowance instead of replacing it.
approve_impl_Additive(alws, caller, spender, value) ==
    LET owner == caller IN
    [result     |-> "Ok",
     allowances |-> MapInsert(alws, <<owner, spender>>,
                       (allowance_impl(alws, owner, spender) + value) % (MaxBalance + 1)),
     emitted    |-> <<Approval(owner, spender, value)>>]

\* approve that files the allowance under (spender, owner).
approve_impl_SwappedKey(alws, caller, spender, value) ==
    LET owner == caller IN
    [result     |-> "Ok",
     allowances |-> MapInsert(alws, <<spender, owner>>, value),
     emitted    |-> <<Approval(owner, spender, value)>>]

\* The outcome of approve called by caller on the allowances alws.
approve_impl(alws, caller, spender, value) ==
    LET owner == caller IN
    [result     |-> "Ok",
     allowances |-> MapInsert(alws, <<owner, spender>>, value),
     emitted    |-> <<Approval(owner, spender, value)>>]

\* One call of approve, from entry to return.
approve_call(caller, spender, value) ==
    /\ LET r == approve_impl(allowances, caller, spender, value) IN
          /\ allowances' = r.allowances
          /\ events' = events \o r.emitted
          /\ last' = Returned("approve", r.result, caller, caller, spender, value)
    /\ grant' = MapInsert(grant, <<caller, spender>>, [value |-> value, spent |-> 0])
    /\ pre' = Current
    /\ UNCHANGED <<total_supply, balances, frame>>

approve(caller, spender, value) == Accepting /\ approve_call(caller, spender, value)

\* transfer_from without the allowance check of lines 152-154.
transfer_from_impl_NoCheck(bals, alws, caller, from, to, value) ==
    LET current == allowance_impl(alws, from, caller) IN
    { IF r.result = "Ok"
      THEN [result     |-> "Ok",
            balances   |-> r.balances,
            allowances |-> MapInsert(alws, <<from, caller>>,
                              IF current < value THEN 0 ELSE current - value),
            emitted    |-> r.emitted]
      ELSE [result     |-> r.result,
            balances   |-> r.balances,
            allowances |-> alws,
            emitted    |-> r.emitted]
      : r \in transfer_from_to(bals, from, to, value) }

\* transfer_from that lowers the allowance before it moves the balance, and
\* so keeps the lowered allowance when the transfer fails.
transfer_from_impl_DecrementFirst(bals, alws, caller, from, to, value) ==
    LET current == allowance_impl(alws, from, caller) IN
    IF current < value
    THEN {[result |-> "InsufficientAllowance", balances |-> bals,
           allowances |-> alws, emitted |-> <<>>]}
    ELSE { [result     |-> r.result,
            balances   |-> r.balances,
            allowances |-> MapInsert(alws, <<from, caller>>, current - value),
            emitted    |-> r.emitted]
           : r \in transfer_from_to(bals, from, to, value) }

\* transfer_from that looks at the balance before the allowance.
transfer_from_impl_BalanceFirst(bals, alws, caller, from, to, value) ==
    LET current == allowance_impl(alws, from, caller) IN
    IF balance_of_impl(bals, from) < value
    THEN {[result |-> "InsufficientBalance", balances |-> bals,
           allowances |-> alws, emitted |-> <<>>]}
    ELSE IF current < value
    THEN {[result |-> "InsufficientAllowance", balances |-> bals,
           allowances |-> alws, emitted |-> <<>>]}
    ELSE { [result     |-> r.result,
            balances   |-> r.balances,
            allowances |-> IF r.result = "Ok"
                           THEN MapInsert(alws, <<from, caller>>, current - value)
                           ELSE alws,
            emitted    |-> r.emitted]
           : r \in transfer_from_to(bals, from, to, value) }

\* transfer_from that writes the lowered allowance under (caller, from).
transfer_from_impl_WrongKey(bals, alws, caller, from, to, value) ==
    LET current == allowance_impl(alws, from, caller) IN
    IF current < value
    THEN {[result |-> "InsufficientAllowance", balances |-> bals,
           allowances |-> alws, emitted |-> <<>>]}
    ELSE { [result     |-> r.result,
            balances   |-> r.balances,
            allowances |-> IF r.result = "Ok"
                           THEN MapInsert(alws, <<caller, from>>, current - value)
                           ELSE alws,
            emitted    |-> r.emitted]
           : r \in transfer_from_to(bals, from, to, value) }

\* transfer_from that names the caller, not from, as the source in its event.
transfer_from_impl_EmitsCaller(bals, alws, caller, from, to, value) ==
    LET current == allowance_impl(alws, from, caller) IN
    IF current < value
    THEN {[result |-> "InsufficientAllowance", balances |-> bals,
           allowances |-> alws, emitted |-> <<>>]}
    ELSE { IF r.result = "Ok"
           THEN [result     |-> "Ok",
                 balances   |-> r.balances,
                 allowances |-> MapInsert(alws, <<from, caller>>, current - value),
                 emitted    |-> <<Transfer(Some(caller), Some(to), value)>>]
           ELSE [result     |-> r.result,
                 balances   |-> r.balances,
                 allowances |-> alws,
                 emitted    |-> r.emitted]
           : r \in transfer_from_to(bals, from, to, value) }

\* transfer_from that lets an owner move its own tokens without an allowance.
transfer_from_impl_OwnerBypass(bals, alws, caller, from, to, value) ==
    LET current == allowance_impl(alws, from, caller) IN
    IF caller # from /\ current < value
    THEN {[result |-> "InsufficientAllowance", balances |-> bals,
           allowances |-> alws, emitted |-> <<>>]}
    ELSE { IF r.result = "Ok"
           THEN [result     |-> "Ok",
                 balances   |-> r.balances,
                 allowances |-> IF caller = from
                                THEN alws
                                ELSE MapInsert(alws, <<from, caller>>, current - value),
                 emitted    |-> r.emitted]
           ELSE [result     |-> r.result,
                 balances   |-> r.balances,
                 allowances |-> alws,
                 emitted    |-> r.emitted]
           : r \in transfer_from_to(bals, from, to, value) }

\* transfer_from whose check lets one unit more than the allowance through.
transfer_from_impl_OffByOne(bals, alws, caller, from, to, value) ==
    LET current == allowance_impl(alws, from, caller) IN
    IF current + 1 < value
    THEN {[result |-> "InsufficientAllowance", balances |-> bals,
           allowances |-> alws, emitted |-> <<>>]}
    ELSE { IF r.result = "Ok"
           THEN [result     |-> "Ok",
                 balances   |-> r.balances,
                 allowances |-> MapInsert(alws, <<from, caller>>,
                                   IF current < value THEN 0 ELSE current - value),
                 emitted    |-> r.emitted]
           ELSE [result     |-> r.result,
                 balances   |-> r.balances,
                 allowances |-> alws,
                 emitted    |-> r.emitted]
           : r \in transfer_from_to(bals, from, to, value) }

\* transfer_from without the allowance insert of lines 156-157.
transfer_from_impl_NoDecrement(bals, alws, caller, from, to, value) ==
    LET current == allowance_impl(alws, from, caller) IN
    IF current < value
    THEN {[result |-> "InsufficientAllowance", balances |-> bals,
           allowances |-> alws, emitted |-> <<>>]}
    ELSE { [result     |-> r.result,
            balances   |-> r.balances,
            allowances |-> alws,
            emitted    |-> r.emitted]
           : r \in transfer_from_to(bals, from, to, value) }

\* The outcomes of transfer_from called by caller on the storage (bals, alws).
transfer_from_impl(bals, alws, caller, from, to, value) ==
    LET current == allowance_impl(alws, from, caller) IN
    IF current < value
    THEN {[result |-> "InsufficientAllowance", balances |-> bals,
           allowances |-> alws, emitted |-> <<>>]}
    ELSE { IF r.result = "Ok"
           THEN [result     |-> "Ok",
                 balances   |-> r.balances,
                 allowances |-> MapInsert(alws, <<from, caller>>, current - value),
                 emitted    |-> r.emitted]
           ELSE [result     |-> r.result,
                 balances   |-> r.balances,
                 allowances |-> alws,
                 emitted    |-> r.emitted]
           : r \in transfer_from_to(bals, from, to, value) }

\* What the spender has moved since the owner's last approve, after a
\* transfer_from of value by caller from from that returned result.
Spent(g, result, caller, from, value) ==
    IF result = "Ok" /\ <<from, caller>> \in DOMAIN g
    THEN MapInsert(g, <<from, caller>>,
                   [value |-> g[<<from, caller>>].value,
                    spent |-> g[<<from, caller>>].spent + value])
    ELSE g

\* One call of transfer_from, from entry to return.
transfer_from_call(caller, from, to, value) ==
    /\ \E r \in transfer_from_impl(balances, allowances, caller, from, to, value) :
          /\ balances' = r.balances
          /\ allowances' = r.allowances
          /\ events' = events \o r.emitted
          /\ last' = Returned("transfer_from", r.result, caller, from, to, value)
          /\ grant' = Spent(grant, r.result, caller, from, value)
    /\ pre' = Current
    /\ UNCHANGED <<total_supply, frame>>

transfer_from(caller, from, to, value) ==
    Accepting /\ transfer_from_call(caller, from, to, value)

Next ==
    \/ \E caller \in AccountId, to \in AccountId, value \in Balance :
          transfer(caller, to, value)
    \/ \E caller \in AccountId, spender \in AccountId, value \in Balance :
          approve(caller, spender, value)
    \/ \E caller \in AccountId, from \in AccountId, to \in AccountId, value \in Balance :
          transfer_from(caller, from, to, value)

Spec == Init /\ [][Next]_vars

(* ------------------- the messages on any ledger ------------------------ *)

\* The record standing for "no call yet": the storage was taken as found.
Loaded == [op |-> "load", result |-> "Ok"]

\* A contract whose storage holds any balances at all, whether or not they
\* sum to total_supply: what the messages do when invariant I1 is not
\* assumed.
InitAnyLedger ==
    /\ total_supply \in Balance
    /\ balances \in [AccountId -> Balance]
    /\ allowances = EmptyMapping
    /\ events = <<Transfer(None, Some(Deployer), total_supply)>>
    /\ last = Loaded
    /\ pre = Current
    /\ grant = EmptyMapping
    /\ frame = NoFrame

SpecAnyLedger == InitAnyLedger /\ [][Next]_vars

(* --------------------- an owner and its spender ------------------------ *)

\* Longer runs of the two parties of a delegation: the owner, who holds the
\* supply and only approves, and the spender, who only calls transfer_from
\* on the owner's tokens.

\* Calls are accepted in these runs while the log holds fewer events.
MaxDelegationEvents == 5

Owner == Deployer

Spender == "bob"

owner_approve(value) ==
    /\ Len(events) < MaxDelegationEvents
    /\ approve_call(Owner, Spender, value)

spender_transfer_from(to, value) ==
    /\ Len(events) < MaxDelegationEvents
    /\ transfer_from_call(Spender, Owner, to, value)

NextDelegation ==
    \/ \E value \in Balance : owner_approve(value)
    \/ \E to \in AccountId, value \in Balance : spender_transfer_from(to, value)

SpecDelegation == Init /\ [][NextDelegation]_vars

(* ------------------ the messages, write by write ----------------------- *)

\* Each message run one statement at a time: every read-and-check, every
\* Mapping::insert and every emit_event is a step of its own, so the storage
\* between two writes of one call is a state.  The callers are the owner,
\* who transfers and approves, and the spender, who calls transfer_from.

\* Calls are entered in these runs while the log holds fewer events.
MaxStepEvents == 3

\* transfer_from with the allowance insert moved before the call of
\* transfer_from_to.
Program_DecrementFirst(op) ==
    CASE op = "transfer"      -> <<"t_check", "t_debit", "t_credit", "t_emit">>
      [] op = "transfer_from" -> <<"f_check", "f_allow", "t_check", "t_debit",
                                   "t_credit", "t_emit">>
      [] op = "approve"       -> <<"a_insert", "a_emit">>

\* The statements of a message in program order; a message returns Ok after
\* its last one.
\*   f_check  150-154  read the allowance, return Err if it is below value
\*   t_check   97-100  read from_balance, return Err if it is below value
\*   t_debit   102     balances.insert(from, from_balance - value)
\*   t_credit  103-104 read to_balance, balances.insert(to, to_balance + value)
\*   t_emit    106-110 emit Transfer
\*   f_allow   156-157 allowances.insert((from, caller), allowance - value)
\*   a_insert  123     allowances.insert((owner, spender), value)
\*   a_emit    124-128 emit Approval
Program(op) ==
    CASE op = "transfer"      -> <<"t_check", "t_debit", "t_credit", "t_emit">>
      [] op = "transfer_from" -> <<"f_check", "t_check", "t_debit", "t_credit",
                                   "t_emit", "f_allow">>
      [] op = "approve"       -> <<"a_insert", "a_emit">>

\* The statement the call in progress is at.
Stmt == IF frame.at = 0 THEN "none" ELSE Program(frame.op)[frame.at]

\* A call of op enters its first statement.
Enter(op, caller, from, to, value) ==
    /\ frame.at = 0
    /\ Len(events) < MaxStepEvents
    /\ frame' = [at |-> 1, op |-> op, result |-> "Running", writes |-> <<>>,
                 caller |-> caller, from |-> from, to |-> to, value |-> value,
                 from_balance |-> 0, allowance |-> 0]
    /\ pre' = Current
    /\ UNCHANGED <<total_supply, balances, allowances, events, last, grant>>

enter_transfer(to, value) == Enter("transfer", Owner, Owner, to, value)

enter_approve(value) == Enter("approve", Owner, Owner, Spender, value)

enter_transfer_from(to, value) == Enter("transfer_from", Spender, Owner, to, value)

\* The call in progress returns result: Err from a check, Ok after its last
\* statement.
Return(result, writes) ==
    /\ frame' = Returned_frame(frame.op, result, writes)
    /\ last' = Returned(frame.op, result, frame.caller, frame.from, frame.to,
                        frame.value)

\* The call in progress has done its statement, having made the writes
\* named and read the locals given: it goes on to the next statement, or
\* returns Ok after the last.
Done(writes, from_balance, allowance_read) ==
    IF frame.at = Len(Program(frame.op))
    THEN Return("Ok", frame.writes \o writes)
    ELSE /\ frame' = [frame EXCEPT !.at = frame.at + 1,
                                   !.writes = frame.writes \o writes,
                                   !.from_balance = from_balance,
                                   !.allowance = allowance_read]
         /\ last' = last

f_check ==
    /\ Stmt = "f_check"
    /\ LET current == allowance_impl(allowances, frame.from, frame.caller) IN
          IF current < frame.value
          THEN Return("InsufficientAllowance", frame.writes)
          ELSE Done(<<>>, frame.from_balance, current)
    /\ UNCHANGED <<total_supply, balances, allowances, events, pre, grant>>

t_check ==
    /\ Stmt = "t_check"
    /\ LET from_balance == balance_of_impl(balances, frame.from) IN
          IF from_balance < frame.value
          THEN Return("InsufficientBalance", frame.writes)
          ELSE Done(<<>>, from_balance, frame.allowance)
    /\ UNCHANGED <<total_supply, balances, allowances, events, pre, grant>>

t_debit ==
    /\ Stmt = "t_debit"
    /\ balances' = MapInsert(balances, frame.from, frame.from_balance - frame.value)
    /\ Done(<<"debit">>, frame.from_balance, frame.allowance)
    /\ UNCHANGED <<total_supply, allowances, events, pre, grant>>

\* When to_balance + value does not fit and the build traps, the call ends
\* there, after the debit.
t_credit ==
    /\ Stmt = "t_credit"
    /\ LET to_balance == balance_of_impl(balances, frame.to) IN
          \E s \in BalanceAdd(to_balance, frame.value) :
              IF s.trap
              THEN /\ Return("Trap", frame.writes)
                   /\ balances' = balances
              ELSE /\ balances' = MapInsert(balances, frame.to, s.sum)
                   /\ Done(<<"credit">>, frame.from_balance, frame.allowance)
    /\ UNCHANGED <<total_supply, allowances, events, pre, grant>>

t_emit ==
    /\ Stmt = "t_emit"
    /\ events' = Append(events, Transfer(Some(frame.from), Some(frame.to), frame.value))
    /\ Done(<<"event">>, frame.from_balance, frame.allowance)
    /\ UNCHANGED <<total_supply, balances, allowances, pre, grant>>

f_allow ==
    /\ Stmt = "f_allow"
    /\ allowances' = MapInsert(allowances, <<frame.from, frame.caller>>,
                               frame.allowance - frame.value)
    /\ grant' = Spent(grant, "Ok", frame.caller, frame.from, frame.value)
    /\ Done(<<"allowance">>, frame.from_balance, frame.allowance)
    /\ UNCHANGED <<total_supply, balances, events, pre>>

a_insert ==
    /\ Stmt = "a_insert"
    /\ allowances' = MapInsert(allowances, <<frame.caller, frame.to>>, frame.value)
    /\ grant' = MapInsert(grant, <<frame.caller, frame.to>>,
                          [value |-> frame.value, spent |-> 0])
    /\ Done(<<"allowance">>, frame.from_balance, frame.allowance)
    /\ UNCHANGED <<total_supply, balances, events, pre>>

a_emit ==
    /\ Stmt = "a_emit"
    /\ events' = Append(events, Approval(frame.caller, frame.to, frame.value))
    /\ Done(<<"event">>, frame.from_balance, frame.allowance)
    /\ UNCHANGED <<total_supply, balances, allowances, pre, grant>>

NextSteps ==
    \/ \E to \in AccountId, value \in Balance : enter_transfer(to, value)
    \/ \E value \in Balance : enter_approve(value)
    \/ \E to \in AccountId, value \in Balance : enter_transfer_from(to, value)
    \/ f_check
    \/ t_check
    \/ t_debit
    \/ t_credit
    \/ t_emit
    \/ f_allow
    \/ a_insert
    \/ a_emit

SpecSteps == Init /\ [][NextSteps]_vars

(* ----------------------- vocabulary of the claims ----------------------- *)

\* Readings of the storage as it was when the last call began.
PreBalance(a) == balance_of_impl(pre.balances, a)

PreAllowance(o, s) == allowance_impl(pre.allowances, o, s)

Pairs == AccountId \X AccountId

RECURSIVE SumBalances(_, _)
\* The sum of balance_of_impl(bals, a) over the accounts a of S.
SumBalances(bals, S) ==
    IF S = {} THEN 0
    ELSE LET a == CHOOSE x \in S : TRUE
         IN  balance_of_impl(bals, a) + SumBalances(bals, S \ {a})

\* Every balance_of reading of b1 is that of b2.  An account with an entry
\* in neither mapping reads the default in both, so the accounts to compare
\* are those with an entry in one of them.
SameBalances(b1, b2) ==
    \A x \in DOMAIN b1 \cup DOMAIN b2 : balance_of_impl(b1, x) = balance_of_impl(b2, x)

\* Every allowance reading of a1 is that of a2.
SameAllowances(a1, a2) ==
    \A p \in DOMAIN a1 \cup DOMAIN a2 :
        allowance_impl(a1, p[1], p[2]) = allowance_impl(a2, p[1], p[2])

\* The last call returned Ok and was the message op.
Succeeded(op) == last.op = op /\ last.result = "Ok"

\* What a failed transfer or transfer_from leaves: the storage it found.
FailedTransferFrom(result) ==
    [result |-> result, balances |-> balances, allowances |-> allowances,
     emitted |-> <<>>]

FailedTransfer(result) ==
    [result |-> result, balances |-> balances, emitted |-> <<>>]

(* -------------------------------- claims -------------------------------- *)

\* C1: in every reachable state the sum of balance_of(a) over all accounts
\* equals total_supply().
C1_Conservation == SumBalances(balances, AccountId) = total_supply

\* A transfer or transfer_from has moved a positive value between two accounts.
C1_Witness ==
    /\ last.op \in {"transfer", "transfer_from"}
    /\ last.result = "Ok"
    /\ last.value > 0
    /\ last.from # last.to

\* C2: the balance of an account A is lower after a call than before it only
\* if the call was a successful transfer by A, or a successful
\* transfer_from(A, to, value) whose caller had allowance(A, caller) >= value
\* before the call.
C2_NoUnauthorizedMovement ==
    \A a \in AccountId :
        balance_of(a) < PreBalance(a) =>
            /\ last.result = "Ok"
            /\ \/ last.op = "transfer" /\ last.caller = a
               \/ /\ last.op = "transfer_from"
                  /\ last.from = a
                  /\ PreAllowance(a, last.caller) >= last.value

\* A spender other than the owner has lowered the owner's balance.
C2_Witness ==
    /\ Succeeded("transfer_from")
    /\ last.caller # last.from
    /\ balance_of(last.from) < PreBalance(last.from)

\* C3: in every reachable state that takes calls, transfer_from with
\* allowance(from, caller) >= value and
\* balance_of(from) < value returns InsufficientBalance, emits nothing and
\* leaves balances and allowances (the caller's allowance included) as they
\* were; and a transfer_from that returned InsufficientBalance has left the
\* storage and the event log as it found them.
C3_InsufficientBalanceKeepsAllowance ==
    /\ Accepting =>
      \A c \in AccountId, f \in AccountId, t \in AccountId, v \in Balance :
          (allowance(f, c) >= v /\ balance_of(f) < v) =>
              transfer_from_impl(balances, allowances, c, f, t, v)
                  = {FailedTransferFrom("InsufficientBalance")}
    /\ last = Failed("transfer_from", "InsufficientBalance") => Current = pre

\* A transfer_from has failed on the balance while some allowance exceeds
\* its owner's balance.
C3_Witness ==
    /\ last = Failed("transfer_from", "InsufficientBalance")
    /\ \E c \in AccountId, f \in AccountId : allowance(f, c) > balance_of(f)

\* C4: in every reachable state that takes calls, transfer_from with
\* allowance(from, caller) < value returns
\* InsufficientAllowance whatever the balance of from, emits nothing and
\* leaves balances and allowances as they were; and a transfer_from that
\* returned InsufficientAllowance has left the storage (total_supply too)
\* and the event log as it found them.
C4_InsufficientAllowanceNoMutation ==
    /\ Accepting =>
      \A c \in AccountId, f \in AccountId, t \in AccountId, v \in Balance :
          allowance(f, c) < v =>
              transfer_from_impl(balances, allowances, c, f, t, v)
                  = {FailedTransferFrom("InsufficientAllowance")}
    /\ last = Failed("transfer_from", "InsufficientAllowance") => Current = pre

\* A transfer_from has failed on the allowance in a state where some value
\* exceeds both a granted allowance and the owner's balance.
C4_Witness ==
    /\ last = Failed("transfer_from", "InsufficientAllowance")
    /\ \E c \in AccountId, f \in AccountId, v \in Balance :
          /\ 0 < allowance(f, c)
          /\ allowance(f, c) < v
          /\ balance_of(f) < v

\* C5: in every reachable state that takes calls, transfer by a caller
\* whose balance is below value returns
\* InsufficientBalance, emits nothing and leaves every balance as it was; and
\* a transfer that returned InsufficientBalance has left the storage
\* (allowances and total_supply too) and the event log as it found them.
C5_TransferInsufficientBalance ==
    /\ Accepting =>
      \A c \in AccountId, t \in AccountId, v \in Balance :
          balance_of(c) < v =>
              transfer_impl(balances, c, t, v) = {FailedTransfer("InsufficientBalance")}
    /\ last = Failed("transfer", "InsufficientBalance") => Current = pre

\* A transfer has failed while some account holds tokens, but not enough for
\* every value.
C5_Witness ==
    /\ last = Failed("transfer", "InsufficientBalance")
    /\ \E c \in AccountId, v \in Balance : 0 < balance_of(c) /\ balance_of(c) < v

\* C6: in every reachable state that takes calls,
\* transfer_from(from, to, value) with allowance(from, caller) >= value,
\* balance_of(from) >= value and from # to returns Ok; after it the balance
\* of from is lower by value, the balance of to higher by value,
\* allowance(from, caller) lower by value, and every other balance, every
\* other allowance entry and total_supply are as before.
C6_TransferFromSucceeds ==
    /\ Accepting =>
      \A c \in AccountId, f \in AccountId, t \in AccountId, v \in Balance :
          (allowance(f, c) >= v /\ balance_of(f) >= v /\ f # t) =>
              \A r \in transfer_from_impl(balances, allowances, c, f, t, v) :
                  r.result = "Ok"
    /\ (Succeeded("transfer_from") /\ last.from # last.to) =>
          /\ PreAllowance(last.from, last.caller) >= last.value
          /\ PreBalance(last.from) >= last.value
          /\ balance_of(last.from) = PreBalance(last.from) - last.value
          /\ balance_of(last.to) = PreBalance(last.to) + last.value
          /\ \A a \in AccountId \ {last.from, last.to} : balance_of(a) = PreBalance(a)
          /\ allowance(last.from, last.caller)
                = PreAllowance(last.from, last.caller) - last.value
          /\ \A p \in Pairs \ {<<last.from, last.caller>>} :
                allowance(p[1], p[2]) = PreAllowance(p[1], p[2])
          /\ total_supply = pre.total_supply

\* A spender that is neither from nor to has spent a part of its allowance.
C6_Witness ==
    /\ Succeeded("transfer_from")
    /\ last.caller \notin {last.from, last.to}
    /\ last.from # last.to
    /\ last.value > 0
    /\ allowance(last.from, last.caller) > 0

\* C7: in every reachable state that takes calls,
\* transfer(to, value) by a caller with balance_of(caller) >= value and
\* caller # to returns Ok; after it the balance of the caller is lower by
\* value, the balance of to higher by value, and every other balance, every
\* allowance and total_supply are as before.
C7_TransferSucceeds ==
    /\ Accepting =>
      \A c \in AccountId, t \in AccountId, v \in Balance :
          (balance_of(c) >= v /\ c # t) =>
              \A r \in transfer_impl(balances, c, t, v) : r.result = "Ok"
    /\ (Succeeded("transfer") /\ last.caller # last.to) =>
          /\ PreBalance(last.caller) >= last.value
          /\ balance_of(last.caller) = PreBalance(last.caller) - last.value
          /\ balance_of(last.to) = PreBalance(last.to) + last.value
          /\ \A a \in AccountId \ {last.caller, last.to} : balance_of(a) = PreBalance(a)
          /\ allowances = pre.allowances
          /\ total_supply = pre.total_supply

\* A caller has transferred a part of its balance to another account.
C7_Witness ==
    /\ Succeeded("transfer")
    /\ last.caller # last.to
    /\ last.value > 0
    /\ balance_of(last.caller) > 0

\* C8: approve returns Ok in every reachable state that takes calls, for
\* every caller, spender and value (whatever the balance and the prior
\* allowance); after it allowance(caller, spender) is exactly value, and
\* every other allowance entry, every balance and total_supply are as before.
C8_ApproveOverwrites ==
    /\ Accepting =>
      \A c \in AccountId, s \in AccountId, v \in Balance :
          approve_impl(allowances, c, s, v).result = "Ok"
    /\ last.op = "approve" =>
          /\ last.result = "Ok"
          /\ allowance(last.caller, last.to) = last.value
          /\ \A p \in Pairs \ {<<last.caller, last.to>>} :
                allowance(p[1], p[2]) = PreAllowance(p[1], p[2])
          /\ balances = pre.balances
          /\ total_supply = pre.total_supply

\* An approve has replaced a positive allowance by another positive value
\* that exceeds the owner's balance.
C8_Witness ==
    /\ Succeeded("approve")
    /\ PreAllowance(last.caller, last.to) > 0
    /\ last.value > 0
    /\ last.value # PreAllowance(last.caller, last.to)
    /\ last.value > balance_of(last.caller)

\* C9: right after new(initial_supply) by deployer D, total_supply() is
\* initial_supply, balance_of(D) is initial_supply, every other balance is 0
\* and every allowance is 0.
C9_InitialState ==
    last.op = "new" =>
        /\ total_supply = last.value
        /\ balance_of(last.caller) = last.value
        /\ \A a \in AccountId \ {last.caller} : balance_of(a) = 0
        /\ \A p \in Pairs : allowance(p[1], p[2]) = 0

\* The contract has just been constructed with a positive supply.
C9_Witness == last.op = "new" /\ last.value > 0

\* C10: total_supply() equals the initial_supply given to new (the value of
\* the construction event) in every reachable state, and no call changes it.
C10_TotalSupplyImmutable ==
    /\ total_supply = Head(events).value
    /\ last.op # "new" => total_supply = pre.total_supply

\* Two calls after construction have moved tokens and the supply is positive.
C10_Witness ==
    /\ Len(events) >= 3
    /\ total_supply > 0
    /\ \E a \in AccountId : balance_of(a) # PreBalance(a)

\* C11: the event sink is an append-only log.  Construction appends exactly
\* Transfer{None, Some(deployer), initial_supply}; a transfer or
\* transfer_from that returns Ok appends exactly one
\* Transfer{Some(from), Some(to), value} with the arguments of the call; an
\* approve appends exactly one Approval{caller, spender, value}; a call that
\* does not return Ok appends nothing.  In every case the events logged
\* before the call stay as they were, so each call emits at most one event.
C11_EventContract ==
    /\ last.op = "new" =>
          events = Append(pre.events, Transfer(None, Some(last.caller), last.value))
    /\ (Succeeded("transfer") \/ Succeeded("transfer_from")) =>
          events = Append(pre.events,
                          Transfer(Some(last.from), Some(last.to), last.value))
    /\ last.op = "approve" =>
          events = Append(pre.events, Approval(last.caller, last.to, last.value))
    /\ last.result # "Ok" => events = pre.events

\* A spender has moved a positive value of another account's tokens to a
\* third one, after a construction and an approve that were logged too.
C11_Witness ==
    /\ Succeeded("transfer_from")
    /\ last.value > 0
    /\ Cardinality({last.caller, last.from, last.to}) = 3
    /\ Len(events) = 3
    /\ events[2].event = "Approval"

\* C12: in every reachable state that takes calls, for every account A and
\* every value <= balance_of(A), transfer(A, value) by A, and
\* transfer_from(A, A, value) by a caller with enough allowance, return Ok,
\* leave every balance reading as it was and emit one
\* Transfer{Some(A), Some(A), value}; and after such a call every balance is
\* as before it and the log is longer by that one event.
C12_SelfTransfer ==
    /\ Accepting =>
          \A a \in AccountId, v \in Balance :
              balance_of(a) >= v =>
                  /\ \A r \in transfer_impl(balances, a, a, v) :
                        /\ r.result = "Ok"
                        /\ SameBalances(r.balances, balances)
                        /\ r.emitted = <<Transfer(Some(a), Some(a), v)>>
                  /\ \A c \in AccountId :
                        allowance(a, c) >= v =>
                            \A r \in transfer_from_impl(balances, allowances, c, a, a, v) :
                                /\ r.result = "Ok"
                                /\ SameBalances(r.balances, balances)
                                /\ r.emitted = <<Transfer(Some(a), Some(a), v)>>
    /\ ((Succeeded("transfer") \/ Succeeded("transfer_from")) /\ last.from = last.to) =>
          /\ SameBalances(balances, pre.balances)
          /\ events = Append(pre.events,
                             Transfer(Some(last.from), Some(last.to), last.value))

\* An account has transferred its whole, largest possible, balance to itself.
C12_Witness ==
    /\ Succeeded("transfer")
    /\ last.from = last.to
    /\ last.value = MaxBalance
    /\ balance_of(last.from) = MaxBalance

\* The balance of to that line 103 reads, after the debit of line 102.
ToBalanceRead(f, t, v) == IF f = t THEN balance_of(f) - v ELSE balance_of(t)

\* C13: in every reachable state that takes calls, for every transfer or
\* transfer_from that passes its checks, the sum to_balance + value (from = to
\* included) is at most the largest Balance: the call does not trap and the
\* balance it stores for to is that sum, not a wrapped one.
C13_CreditNeverOverflows ==
    Accepting =>
        \A f \in AccountId, t \in AccountId, v \in Balance :
            balance_of(f) >= v =>
                /\ ToBalanceRead(f, t, v) + v <= MaxBalance
                /\ \A r \in transfer_from_to(balances, f, t, v) :
                      /\ r.result = "Ok"
                      /\ balance_of_impl(r.balances, t) = ToBalanceRead(f, t, v) + v

\* A recipient that already held tokens has been credited up to the largest
\* Balance.
C13_Witness ==
    /\ Succeeded("transfer")
    /\ last.from # last.to
    /\ last.value > 0
    /\ PreBalance(last.to) > 0
    /\ balance_of(last.to) = MaxBalance

\* C14 (as claimed): from any ledger state, a transfer or transfer_from whose
\* credit to_balance + value exceeds the largest Balance does not return Ok
\* with a wrapped balance stored: a call that returned Ok had a credit that
\* fits; and a call that trapped has left every balance, the sender's
\* included, as it was.
C14_CreditOverflowFailsClosed ==
    /\ (Succeeded("transfer") \/ Succeeded("transfer_from")) =>
          (IF last.from = last.to
           THEN PreBalance(last.from) - last.value
           ELSE PreBalance(last.to)) + last.value <= MaxBalance
    /\ last.result = "Trap" => balances = pre.balances

\* C15: for every owner O and spender S, since the last approve(S, v) by O
\* the values moved by S's successful transfer_from(O, _, _) calls total at
\* most v, and allowance(O, S) is v minus that total.
C15_AllowanceIsCumulativeCap ==
    \A p \in DOMAIN grant :
        /\ grant[p].spent <= grant[p].value
        /\ allowance(p[1], p[2]) = grant[p].value - grant[p].spent

\* The spender has used up a grant in more than one transfer_from.
C15_Witness ==
    /\ Succeeded("transfer_from")
    /\ last.value > 0
    /\ <<last.from, last.caller>> \in DOMAIN grant
    /\ grant[<<last.from, last.caller>>].spent > last.value
    /\ grant[<<last.from, last.caller>>].spent = grant[<<last.from, last.caller>>].value

\* The run approve(S, n) by O, transfer_from(O, t1, n) by S, approve(S, m) by
\* O, transfer_from(O, t2, m) by S, all successful, with t1 and t2 other
\* accounts than O, as the log of a run of the owner and its spender shows it.
ApproveRace(n, m, t1, t2) ==
    /\ Len(events) = 5
    /\ events[2] = Approval(Owner, Spender, n)
    /\ events[3] = Transfer(Some(Owner), Some(t1), n)
    /\ events[4] = Approval(Owner, Spender, m)
    /\ events[5] = Transfer(Some(Owner), Some(t2), m)

\* C16: whenever the owner has approved n and later m, and the spender's
\* transfer_from of n came between the two approvals and its transfer_from
\* of m after the second, the spender has moved n + m of the owner's tokens
\* (the owner holds total_supply - (n + m), the others n + m) and the
\* allowance is used up; with n and m positive that is more than max(n, m).
C16_ApproveRace ==
    \A n \in Balance, m \in Balance, t1 \in AccountId \ {Owner}, t2 \in AccountId \ {Owner} :
        ApproveRace(n, m, t1, t2) =>
            /\ balance_of(Owner) = total_supply - (n + m)
            /\ SumBalances(balances, AccountId \ {Owner}) = n + m
            /\ allowance(Owner, Spender) = 0
            /\ (n > 0 /\ m > 0) => (n + m > n /\ n + m > m)

\* The race has happened with positive n and m.
C16_Witness ==
    \E n \in Balance \ {0}, m \in Balance \ {0},
       t1 \in AccountId \ {Owner}, t2 \in AccountId \ {Owner} :
        ApproveRace(n, m, t1, t2)

\* The order in which a message makes its writes, as the claim gives it.
WriteOrder(op) ==
    CASE op = "transfer"      -> <<"debit", "credit", "event">>
      [] op = "transfer_from" -> <<"debit", "credit", "event", "allowance">>
      [] op = "approve"       -> <<"allowance", "event">>
      [] OTHER                -> <<>>

IsPrefix(a, b) == Len(a) <= Len(b) /\ a = SubSeq(b, 1, Len(a))

\* C17: with every insert and every emit_event a step of its own: a call is
\* at a precondition check only before its first write; its writes so far
\* are the first ones of debit, credit, Transfer event, allowance decrement
\* (for approve: allowance, Approval event), in that order; a call that
\* returned Err made no write and left storage and log as it found them; and
\* a call that returned Ok made all its writes.
C17_CheckBeforeMutate ==
    /\ Stmt \in {"f_check", "t_check"} => frame.writes = <<>>
    /\ IsPrefix(frame.writes, WriteOrder(frame.op))
    /\ (frame.at = 0 /\ frame.result \in {"InsufficientBalance", "InsufficientAllowance"}) =>
          /\ frame.writes = <<>>
          /\ Current = pre
    /\ (frame.at = 0 /\ frame.result = "Ok") => frame.writes = WriteOrder(frame.op)

\* A transfer_from has passed its allowance check with a positive allowance
\* and then returned InsufficientBalance.
C17_Witness ==
    /\ frame.at = 0
    /\ frame.op = "transfer_from"
    /\ frame.result = "InsufficientBalance"
    /\ allowance(Owner, Spender) > 0

\* C18: in every reachable state that takes calls, transfer_from(from, to,
\* value) called by from itself with value > allowance(from, from) returns
\* InsufficientAllowance and changes nothing, whatever the balance of from;
\* a positive allowance(from, from) comes from an approve(from, _) by from;
\* and a transfer_from by from that returned Ok had allowance(from, from) >=
\* value before it and has lowered that entry by value.
C18_OwnerNeedsAllowance ==
    /\ Accepting =>
          \A a \in AccountId, t \in AccountId, v \in Balance :
              allowance(a, a) < v =>
                  transfer_from_impl(balances, allowances, a, a, t, v)
                      = {FailedTransferFrom("InsufficientAllowance")}
    /\ \A a \in AccountId :
          allowance(a, a) > 0 =>
              \E i \in 1 .. Len(events) :
                  /\ events[i].event = "Approval"
                  /\ events[i].owner = a
                  /\ events[i].spender = a
                  /\ events[i].value >= allowance(a, a)
    /\ (Succeeded("transfer_from") /\ last.caller = last.from) =>
          /\ PreAllowance(last.from, last.from) >= last.value
          /\ allowance(last.from, last.from)
                = PreAllowance(last.from, last.from) - last.value

\* An owner has moved its own tokens with transfer_from, spending an
\* allowance it had granted to itself.
C18_Witness ==
    /\ Succeeded("transfer_from")
    /\ last.caller = last.from
    /\ last.value > 0
    /\ last.to # last.from

\* C19: for every owner O and spender S (a pair with no entry now or before
\* the call reads 0 both times), allowance(O, S) differs from what it was
\* before the last call only if
\* that call was approve(S, value) by O, and then it is value, or a
\* transfer_from(O, _, value) by S that returned Ok, and then it is lower by
\* value; so it is higher than before only after an approve by O, and
\* transfer leaves the allowances as they were.
C19_AllowanceFrame ==
    /\ \A p \in DOMAIN allowances \cup DOMAIN pre.allowances :
          /\ allowance(p[1], p[2]) # PreAllowance(p[1], p[2]) =>
                \/ /\ Succeeded("approve")
                   /\ last.caller = p[1]
                   /\ last.to = p[2]
                   /\ allowance(p[1], p[2]) = last.value
                \/ /\ Succeeded("transfer_from")
                   /\ last.from = p[1]
                   /\ last.caller = p[2]
                   /\ allowance(p[1], p[2]) = PreAllowance(p[1], p[2]) - last.value
          /\ allowance(p[1], p[2]) > PreAllowance(p[1], p[2]) =>
                Succeeded("approve") /\ last.caller = p[1]
    /\ last.op = "transfer" => allowances = pre.allowances

\* An owner has lowered, by approve, an allowance it had granted.
C19_Witness ==
    /\ Succeeded("approve")
    /\ last.caller # last.to
    /\ last.value < PreAllowance(last.caller, last.to)

\* C20: in every reachable state that takes calls, transfer(to, 0) by any
\* caller and transfer_from(from, to, 0) by any caller for any from return
\* Ok, leave every balance_of and allowance reading as it was and emit
\* Transfer{Some(from), Some(to), 0}; and after such a call every reading is
\* as before it and the log is longer by that event.
C20_ZeroValueSucceeds ==
    /\ Accepting =>
          /\ \A c \in AccountId, t \in AccountId :
                \A r \in transfer_impl(balances, c, t, 0) :
                    /\ r.result = "Ok"
                    /\ SameBalances(r.balances, balances)
                    /\ r.emitted = <<Transfer(Some(c), Some(t), 0)>>
          /\ \A c \in AccountId, f \in AccountId, t \in AccountId :
                \A r \in transfer_from_impl(balances, allowances, c, f, t, 0) :
                    /\ r.result = "Ok"
                    /\ SameBalances(r.balances, balances)
                    /\ SameAllowances(r.allowances, allowances)
                    /\ r.emitted = <<Transfer(Some(f), Some(t), 0)>>
    /\ ((Succeeded("transfer") \/ Succeeded("transfer_from")) /\ last.value = 0) =>
          /\ SameBalances(balances, pre.balances)
          /\ SameAllowances(allowances, pre.allowances)
          /\ events = Append(pre.events,
                             Transfer(Some(last.from), Some(last.to), 0))

\* A caller without allowance has made the contract log a Transfer that
\* names another account, one that holds nothing, as the source.
C20_Witness ==
    /\ Succeeded("transfer_from")
    /\ last.value = 0
    /\ last.caller # last.from
    /\ PreAllowance(last.from, last.caller) = 0
    /\ PreBalance(last.from) = 0

====
